---- MODULE Spec2Model ----
(***************************************************************************)
(* Model of the snake game state (src/src/game.rs): the grid of tiles with *)
(* the snake encoded as directional links inside the cells, construction,  *)
(* reset and the per-tick update.                                          *)
(***************************************************************************)
EXTENDS Integers, Naturals, Sequences, FiniteSets, TLC

\* ------------------------------------------------------------------------
\* Bounds of the model
\* ------------------------------------------------------------------------
\* largest level_width / level_height passed to GameState::new
MaxWidth == 7
MaxHeight == 5
\* update is not explored past this score (caps the snake's growth)
MaxScore == 10
\* largest highscore passed to GameState::new
MaxHighscore == 1

\* smallest dimensions for which the fixed snake placement (3,3)..(3,5)
\* indexes inside the array (a smaller array makes new panic)
MinWidth == 6
MinHeight == 4

Widths == MinWidth..MaxWidth
Heights == MinHeight..MaxHeight
Highscores == 0..MaxHighscore

\* ------------------------------------------------------------------------
\* Direction, Tile
\* ------------------------------------------------------------------------
None == "None"
Direction == {"Up", "Down", "Left", "Right"}
OptDirection == Direction \cup {None}
Err == "Err"

reverse(d) ==
    CASE d = "Up" -> "Down"
      [] d = "Down" -> "Up"
      [] d = "Left" -> "Right"
      [] d = "Right" -> "Left"

Floor == [tag |-> "Floor", prev |-> None, next |-> None]
Wall == [tag |-> "Wall", prev |-> None, next |-> None]
Food == [tag |-> "Food", prev |-> None, next |-> None]
Snake(p, n) == [tag |-> "Snake", prev |-> p, next |-> n]

Indices(w, h) == (0..(h - 1)) \X (0..(w - 1))

\* ------------------------------------------------------------------------
\* GameState::new and its helpers
\* ------------------------------------------------------------------------
\* swap_tile on one cell: the tile the cell holds afterwards
swap_tile_stamp(tile, tile1, tile2) ==
    IF tile = tile1 THEN tile2 ELSE tile

swap_tile(tile, tile1, tile2) ==
    IF tile = tile1 THEN tile2
    ELSE IF tile = tile2 THEN tile1
    ELSE tile

\* toggle_walls, cell by cell: the first loop calls swap_tile on (0, x) and
\* then on (h - 1, x) for every column x, the second on (y, 0) and then on
\* (y, w - 1) for every row y in 1..h-2
toggle_walls(t, w, h) ==
    [i \in DOMAIN t |->
        LET top == IF i[1] = 0 THEN swap_tile(t[i], Floor, Wall) ELSE t[i]
            bottom == IF i[1] = h - 1 THEN swap_tile(top, Floor, Wall) ELSE top
            left == IF i[1] \in 1..(h - 2) /\ i[2] = 0
                    THEN swap_tile(bottom, Floor, Wall) ELSE bottom
            right == IF i[1] \in 1..(h - 2) /\ i[2] = w - 1
                     THEN swap_tile(left, Floor, Wall) ELSE left
        IN  right]

\* the test of the rejection loop of spawn_food: the drawn index is kept
\* when it holds a Floor tile
SpawnAccepts_nonwall(t, index) == t[index] # Wall

SpawnAccepts(t, index) == t[index] = Floor

spawn_food(gs, index) == [gs EXCEPT !.tiles[index] = Food]

InitialSnake(t) ==
    [t EXCEPT ![<<3, 3>>] = Snake(None, "Right"),
              ![<<3, 4>>] = Snake("Left", "Right"),
              ![<<3, 5>>] = Snake("Left", None)]

\* GameState::new up to (not including) the call of spawn_food
new_before_food(w, h, hs) ==
    [level_width |-> w,
     level_height |-> h,
     tiles |-> toggle_walls(InitialSnake([i \in Indices(w, h) |-> Floor]), w, h),
     snake_head_idx |-> <<3, 5>>,
     snake_tail_idx |-> <<3, 3>>,
     snake_dir |-> "Right",
     snake_alive |-> TRUE,
     score |-> 0,
     highscore |-> hs]

\* ------------------------------------------------------------------------
\* GameState::update and its helpers
\* ------------------------------------------------------------------------
get_snake_prev(t, index) ==
    IF t[index].tag = "Snake" /\ t[index].prev # None THEN t[index].prev ELSE Err

get_snake_next(t, index) ==
    IF t[index].tag = "Snake" /\ t[index].next # None THEN t[index].next ELSE Err

add_dir_nowrap(w, h, index, dir) ==
    CASE dir = "Up" -> <<index[1] - 1, index[2]>>
      [] dir = "Down" -> <<index[1] + 1, index[2]>>
      [] dir = "Left" -> <<index[1], index[2] - 1>>
      [] dir = "Right" -> <<index[1], index[2] + 1>>

add_dir_to_index(w, h, index, dir) ==
    CASE dir = "Up" -> <<(index[1] + h - 1) % h, index[2]>>
      [] dir = "Down" -> <<(index[1] + 1) % h, index[2]>>
      [] dir = "Left" -> <<index[1], (index[2] + w - 1) % w>>
      [] dir = "Right" -> <<index[1], (index[2] + 1) % w>>

\* "Handle input": the heading after the pending direction was looked at
handle_input_any(dir, inp) == IF inp # None THEN inp ELSE dir

handle_input(dir, inp) ==
    IF inp # None /\ inp # reverse(dir) THEN inp ELSE dir

\* the collision arm of the match on the new head's tile
Collides(tile) == tile.tag \in {"Wall", "Snake"}

\* the highscore written by the collision arm
death_highscore_always(sc, hs) == sc

death_highscore(sc, hs) == IF sc > hs THEN sc ELSE hs

\* the collision arm as a whole
die_clearing_score(gs) ==
    [gs EXCEPT !.snake_alive = FALSE,
               !.score = 0,
               !.highscore = death_highscore(gs.score, gs.highscore)]

die(gs) ==
    [gs EXCEPT !.snake_alive = FALSE,
               !.highscore = death_highscore(gs.score, gs.highscore)]

\* "Move snake head"
move_head_noidx(gs, new_head, prev) ==
    [gs EXCEPT !.tiles[gs.snake_head_idx] = Snake(prev, gs.snake_dir),
               !.tiles[new_head] = Snake(reverse(gs.snake_dir), None)]

move_head_nonext(gs, new_head, prev) ==
    [gs EXCEPT !.tiles[gs.snake_head_idx] = Snake(prev, None),
               !.tiles[new_head] = Snake(reverse(gs.snake_dir), None),
               !.snake_head_idx = new_head]

move_head_fwd(gs, new_head, prev) ==
    [gs EXCEPT !.tiles[gs.snake_head_idx] = Snake(prev, gs.snake_dir),
               !.tiles[new_head] = Snake(gs.snake_dir, None),
               !.snake_head_idx = new_head]

move_head(gs, new_head, prev) ==
    [gs EXCEPT !.tiles[gs.snake_head_idx] = Snake(prev, gs.snake_dir),
               !.tiles[new_head] = Snake(reverse(gs.snake_dir), None),
               !.snake_head_idx = new_head]

\* the score after eating
eat_score_same(sc) == sc

eat_score_double(sc) == sc + 20

eat_score(sc) == sc + 10

\* "move snake tail", first half: the old tail cell becomes Floor
clear_tail_keep(gs) == gs

clear_tail(gs) == [gs EXCEPT !.tiles[gs.snake_tail_idx] = Floor]

\* "move snake tail", second half: the new tail cell loses its prev link
set_tail_keepprev(gs, new_tail, next) ==
    [gs EXCEPT !.snake_tail_idx = new_tail]

set_tail(gs, new_tail, next) ==
    [gs EXCEPT !.tiles[new_tail] = Snake(None, next),
               !.snake_tail_idx = new_tail]

\* update without the final spawn_food of the eating branch.  The result
\* holds the state, the pending direction that "Handle input" looked at
\* (None when update returned before it), the returned value, the branch
\* taken, and whether spawn_food is still to be called.
Outcome(gs, inp, r, b, spawn) ==
    [gs |-> gs, input |-> inp, ret |-> r, branch |-> b, spawn |-> spawn]

update_move(g1, inp, new_head, tail_next) ==
    LET w == g1.level_width
        h == g1.level_height
        new_tail == add_dir_to_index(w, h, g1.snake_tail_idx, tail_next)
        eat_food == g1.tiles[new_head] = Food
        prev == get_snake_prev(g1.tiles, g1.snake_head_idx)
    IN  IF prev = Err THEN Outcome(g1, inp, Err, "err_head", FALSE)
        ELSE LET g2 == move_head(g1, new_head, prev)
             IN  IF eat_food
                 THEN Outcome([g2 EXCEPT !.score = eat_score(g2.score)],
                              inp, "Ok", "eat", TRUE)
                 ELSE LET g3 == clear_tail(g2)
                          next == get_snake_next(g3.tiles, new_tail)
                      IN  IF next = Err
                          THEN Outcome(g3, inp, Err, "err_new_tail", FALSE)
                          ELSE Outcome(set_tail(g3, new_tail, next),
                                       inp, "Ok", "move", FALSE)

\* update once the snake is known to be alive
update_alive_tailfirst(gs, inp) ==
    LET g1 == [gs EXCEPT !.snake_dir = handle_input(gs.snake_dir, inp)]
        new_head == add_dir_to_index(g1.level_width, g1.level_height,
                                     g1.snake_head_idx, g1.snake_dir)
        tail_next == get_snake_next(g1.tiles, g1.snake_tail_idx)
    IN  IF tail_next = Err THEN Outcome(g1, inp, Err, "err_tail", FALSE)
        ELSE IF Collides(clear_tail(g1).tiles[new_head])
             THEN Outcome(die(g1), inp, "Ok", "collide", FALSE)
             ELSE update_move(g1, inp, new_head, tail_next)

update_alive(gs, inp) ==
    LET g1 == [gs EXCEPT !.snake_dir = handle_input(gs.snake_dir, inp)]
        new_head == add_dir_to_index(g1.level_width, g1.level_height,
                                     g1.snake_head_idx, g1.snake_dir)
        tail_next == get_snake_next(g1.tiles, g1.snake_tail_idx)
    IN  IF tail_next = Err THEN Outcome(g1, inp, Err, "err_tail", FALSE)
        ELSE IF Collides(g1.tiles[new_head])
             THEN Outcome(die(g1), inp, "Ok", "collide", FALSE)
             ELSE update_move(g1, inp, new_head, tail_next)

update_unguarded(gs, inp) == update_alive(gs, inp)

update(gs, inp) ==
    IF ~gs.snake_alive THEN Outcome(gs, None, "Ok", "dead", FALSE)
    ELSE update_alive(gs, inp)

\* GameState::reset up to (not including) the call of spawn_food in new
reset_forgetting(gs) == new_before_food(gs.level_width, gs.level_height, 0)

reset_before_food(gs) ==
    new_before_food(gs.level_width, gs.level_height, gs.highscore)

\* ------------------------------------------------------------------------
\* State
\* ------------------------------------------------------------------------
\* the fields of GameState
VARIABLES level_width, level_height, tiles, snake_head_idx, snake_tail_idx,
          snake_dir, snake_alive, score, highscore,
\* the last call: the method ("new", "reset", "update"), the pending
\* direction update's "Handle input" looked at (None when there was none or
\* update returned before it), the value update returned, the branch of
\* update that ran, and the tile spawn_food found at the index it accepted
          op, input, ret, branch, food_over,
\* Engine::run: the queue of pending directions, the frame counter, where
\* the engine is ("off": not started, "running", "ok" / "err": run returned
\* Ok / Err), how init got its GameState ("loaded", "default"), the number
\* of calls of save, and for the record every direction key pressed and
\* every argument passed to update, in order
          inputs, framecounter, run, load, saves, pressed, passed

game == <<level_width, level_height, tiles, snake_head_idx, snake_tail_idx,
          snake_dir, snake_alive, score, highscore>>
evars == <<inputs, framecounter, run, load, saves, pressed, passed>>
vars == <<level_width, level_height, tiles, snake_head_idx, snake_tail_idx,
          snake_dir, snake_alive, score, highscore,
          op, input, ret, branch, food_over,
          inputs, framecounter, run, load, saves, pressed, passed>>

\* the GameState value held in the variables
Self ==
    [level_width |-> level_width,
     level_height |-> level_height,
     tiles |-> tiles,
     snake_head_idx |-> snake_head_idx,
     snake_tail_idx |-> snake_tail_idx,
     snake_dir |-> snake_dir,
     snake_alive |-> snake_alive,
     score |-> score,
     highscore |-> highscore]

\* the variables after the call are the fields of gs
Becomes(gs) ==
    /\ level_width' = gs.level_width
    /\ level_height' = gs.level_height
    /\ snake_head_idx' = gs.snake_head_idx
    /\ snake_tail_idx' = gs.snake_tail_idx
    /\ snake_dir' = gs.snake_dir
    /\ snake_alive' = gs.snake_alive
    /\ score' = gs.score
    /\ highscore' = gs.highscore
    /\ tiles' = gs.tiles

\* the variables hold GameState::new(w, h, hs), the last draw of spawn_food
\* being one of draws
ConstructedIn(w, h, hs, draws) ==
    LET g == new_before_food(w, h, hs)
    IN  \E index \in draws :
            /\ SpawnAccepts(g.tiles, index)
            /\ level_width = w
            /\ level_height = h
            /\ tiles = spawn_food(g, index).tiles
            /\ snake_head_idx = g.snake_head_idx
            /\ snake_tail_idx = g.snake_tail_idx
            /\ snake_dir = g.snake_dir
            /\ snake_alive = g.snake_alive
            /\ score = g.score
            /\ highscore = g.highscore
            /\ op = "new"
            /\ input = None
            /\ ret = "Ok"
            /\ branch = "none"
            /\ food_over = g.tiles[index]

\* the variables hold GameState::new(w, h, hs), spawn_food drawing any index
Constructed(w, h, hs) == ConstructedIn(w, h, hs, Indices(w, h))

GameInit ==
    \E w \in Widths, h \in Heights, hs \in Highscores : Constructed(w, h, hs)

\* no engine runs: the GameState is driven by bare calls
EngineOff ==
    /\ inputs = <<>>
    /\ framecounter = 0
    /\ run = "off"
    /\ load = "none"
    /\ saves = 0
    /\ pressed = <<>>
    /\ passed = <<>>

Init == GameInit /\ EngineOff

\* GameState::reset, which the engine calls on Return when the snake is dead
Reset ==
    /\ ~snake_alive
    /\ op' = "reset"
    /\ input' = None
    /\ ret' = "Ok"
    /\ branch' = "none"
    /\ LET g == reset_before_food(Self)
       IN  \E index \in Indices(level_width, level_height) :
               /\ SpawnAccepts(g.tiles, index)
               /\ food_over' = g.tiles[index]
               /\ Becomes(spawn_food(g, index))

\* GameState::update(inp)
Update(inp) ==
    LET r == update(Self, inp)
    IN  /\ op' = "update"
        /\ input' = r.input
        /\ ret' = r.ret
        /\ branch' = r.branch
        /\ IF r.spawn
           THEN /\ score < MaxScore
                /\ \E index \in Indices(level_width, level_height) :
                       /\ SpawnAccepts(r.gs.tiles, index)
                       /\ food_over' = r.gs.tiles[index]
                       /\ Becomes(spawn_food(r.gs, index))
           ELSE /\ UNCHANGED food_over
                /\ Becomes(r.gs)

Next ==
    \/ \E inp \in OptDirection : Update(inp) /\ UNCHANGED evars
    \/ Reset /\ UNCHANGED evars

Spec == Init /\ [][Next]_vars

\* ------------------------------------------------------------------------
\* engine::init and Engine::run
\* ------------------------------------------------------------------------
\* the frames and the direction key presses of a run that are followed
MaxFrames == 11
MaxPresses == 2
\* the draws of spawn_food followed for the default game: rows and columns
\* 0..MaxDraw
MaxDraw == 4

\* GameState::default()
DefaultDims == <<40, 30>>
\* the size of a game read from the file
LoadedDims == <<7, 5>>

\* framecounter % 10 == 0
is_tick(fc) == fc % 10 = 0

\* inputs.pop_front(): the Option returned and the queue left
pop_back(q) ==
    IF q = <<>> THEN [arg |-> None, rest |-> q]
    ELSE [arg |-> q[Len(q)], rest |-> SubSeq(q, 1, Len(q) - 1)]

pop_front(q) ==
    IF q = <<>> THEN [arg |-> None, rest |-> q]
    ELSE [arg |-> Head(q), rest |-> Tail(q)]

\* the calls of game_state.save made when run is left the way exit names:
\* the call follows the main loop, which only a break leaves; an error
\* returned with ? from inside the loop leaves run before it
save_calls_always(exit) == 1

save_calls(exit) == IF exit \in {"ok", "err_save"} THEN 1 ELSE 0

\* init: GameState::load(..).unwrap_or_default(), then the SDL set-up, which
\* can fail whatever load did
EngineInit ==
    /\ inputs = <<>>
    /\ framecounter = 0
    /\ saves = 0
    /\ pressed = <<>>
    /\ passed = <<>>
    /\ run \in {"running", "err_init"}
    /\ \/ /\ load = "failed"
          /\ ConstructedIn(DefaultDims[1], DefaultDims[2], 0,
                           (0..MaxDraw) \X (0..MaxDraw))
       \/ /\ load = "loaded"
          /\ \E hs \in Highscores : Constructed(LoadedDims[1], LoadedDims[2], hs)

\* Keycode::Up, Down, Left, Right
PressDirection(d) ==
    /\ run = "running"
    /\ Len(pressed) < MaxPresses
    /\ inputs' = Append(inputs, d)
    /\ pressed' = Append(pressed, d)
    /\ UNCHANGED <<game, op, input, ret, branch, food_over>>
    /\ UNCHANGED <<framecounter, run, load, saves, passed>>

\* Keycode::Return with the snake dead (with the snake alive nothing is done)
PressReturn ==
    /\ run = "running"
    /\ Reset
    /\ UNCHANGED evars

\* Keycode::F when set_fullscreen or set_logical_size returns an error
FullscreenFails ==
    /\ run = "running"
    /\ run' = "err_fullscreen"
    /\ saves' = saves + save_calls("err_fullscreen")
    /\ UNCHANGED <<game, op, input, ret, branch, food_over>>
    /\ UNCHANGED <<inputs, framecounter, load, pressed, passed>>

\* Event::Quit or Keycode::Escape: break 'mainloop, then save, which returns
\* Ok or an error
QuitEvent(save_ok) ==
    /\ run = "running"
    /\ run' = IF save_ok THEN "ok" ELSE "err_save"
    /\ saves' = saves + save_calls(run')
    /\ UNCHANGED <<game, op, input, ret, branch, food_over>>
    /\ UNCHANGED <<inputs, framecounter, load, pressed, passed>>

\* the rest of one pass of the main loop, after the events: the tick on
\* every tenth frame, then render, which returns Ok or an error
Frame(render_ok) ==
    /\ run = "running"
    /\ framecounter < MaxFrames
    /\ IF is_tick(framecounter)
       THEN LET p == pop_front(inputs)
            IN  /\ inputs' = p.rest
                /\ passed' = Append(passed, p.arg)
                /\ Update(p.arg)
       ELSE /\ UNCHANGED <<inputs, passed>>
            /\ UNCHANGED <<game, op, input, ret, branch, food_over>>
    /\ run' = IF is_tick(framecounter) /\ ret' = Err THEN "err_update"
              ELSE IF render_ok THEN "running"
              ELSE "err_render"
    /\ framecounter' = IF run' = "running" THEN framecounter + 1
                       ELSE framecounter
    /\ saves' = saves + save_calls(run')
    /\ UNCHANGED <<load, pressed>>

EngineNext ==
    \/ \E d \in Direction : PressDirection(d)
    \/ PressReturn
    \/ FullscreenFails
    \/ \E save_ok \in BOOLEAN : QuitEvent(save_ok)
    \/ \E render_ok \in BOOLEAN : Frame(render_ok)

EngineSpec == EngineInit /\ [][EngineNext]_vars

\* ------------------------------------------------------------------------
\* Notions the properties are stated in
\* ------------------------------------------------------------------------
SnakeCells == {i \in DOMAIN tiles : tiles[i].tag = "Snake"}
FoodCells == {i \in DOMAIN tiles : tiles[i].tag = "Food"}
\* the cells whose tile is Snake(Some(_), None) / Snake(None, Some(_))
HeadCells == {i \in SnakeCells : tiles[i].prev # None /\ tiles[i].next = None}
TailCells == {i \in SnakeCells : tiles[i].prev = None /\ tiles[i].next # None}
OnBorder(i) ==
    \/ i[1] = 0
    \/ i[1] = level_height - 1
    \/ i[2] = 0
    \/ i[2] = level_width - 1

\* an arena whose snake starts off the border
RegularArena == level_width >= 7 /\ level_height >= 5

\* the cells met when following the next (prev) links from cell i, at most
\* fuel links far
RECURSIVE WalkNext(_, _)
WalkNext(i, fuel) ==
    IF fuel = 0 \/ tiles[i].tag # "Snake" \/ tiles[i].next = None THEN <<i>>
    ELSE <<i>> \o WalkNext(add_dir_to_index(level_width, level_height, i,
                                            tiles[i].next), fuel - 1)

RECURSIVE WalkPrev(_, _)
WalkPrev(i, fuel) ==
    IF fuel = 0 \/ tiles[i].tag # "Snake" \/ tiles[i].prev = None THEN <<i>>
    ELSE <<i>> \o WalkPrev(add_dir_to_index(level_width, level_height, i,
                                            tiles[i].prev), fuel - 1)

\* ------------------------------------------------------------------------
\* C1: while the snake is alive, exactly one Snake cell has no next link
\* (the head) and exactly one has no prev link (the tail); following the
\* next links from the tail visits every Snake cell exactly once and ends at
\* the head; following the prev links from the head runs the same cells
\* backwards and ends at the tail; each cell's next link is the reverse of
\* its successor's prev link.
\* ------------------------------------------------------------------------
C1_ChainIntegrity ==
    snake_alive =>
        /\ Cardinality({i \in SnakeCells : tiles[i].next = None}) = 1
        /\ Cardinality({i \in SnakeCells : tiles[i].prev = None}) = 1
        /\ LET head == CHOOSE i \in SnakeCells : tiles[i].next = None
               tail == CHOOSE i \in SnakeCells : tiles[i].prev = None
               n == Cardinality(SnakeCells)
               up == WalkNext(tail, n)
               down == WalkPrev(head, n)
           IN  /\ Len(up) = n
               /\ {up[k] : k \in 1..n} = SnakeCells
               /\ up[n] = head
               /\ Len(down) = n
               /\ down[n] = tail
               /\ \A k \in 1..n : down[k] = up[n + 1 - k]
               /\ \A k \in 1..(n - 1) :
                      tiles[up[k]].next = reverse(tiles[up[k + 1]].prev)

\* an alive snake that has grown, turned and then moved its tail
C1_Witness ==
    /\ RegularArena
    /\ snake_alive
    /\ branch = "move"
    /\ Cardinality(SnakeCells) = 4
    /\ \E i \in SnakeCells : tiles[i].next \in {"Up", "Down"}
    /\ snake_tail_idx # <<3, 3>>

\* ------------------------------------------------------------------------
\* C2: at construction and after every update, snake_head_idx is the one
\* cell holding Snake(Some(_), None) and snake_tail_idx is the one cell
\* holding Snake(None, Some(_)).
\* ------------------------------------------------------------------------
C2_IndicesMatchGrid ==
    /\ HeadCells = {snake_head_idx}
    /\ TailCells = {snake_tail_idx}

\* both ends have left their initial cells
C2_Witness ==
    /\ RegularArena
    /\ op = "update"
    /\ branch = "move"
    /\ snake_head_idx \notin {<<3, 3>>, <<3, 4>>, <<3, 5>>}
    /\ snake_tail_idx \notin {<<3, 3>>, <<3, 4>>, <<3, 5>>}

\* ------------------------------------------------------------------------
\* C3: while the snake is alive the grid holds exactly one Food tile, and
\* the tile spawn_food overwrote with it was Floor.
\* ------------------------------------------------------------------------
C3_OneFoodOnFloor ==
    snake_alive =>
        /\ Cardinality(FoodCells) = 1
        /\ food_over = Floor

\* the food was eaten and a new one was spawned
C3_Witness ==
    /\ RegularArena
    /\ snake_alive
    /\ branch = "eat"
    /\ Cardinality(FoodCells) = 1
    /\ tiles[snake_head_idx].tag = "Snake"

\* ------------------------------------------------------------------------
\* C4: every cell of row 0, row level_height - 1, column 0 and column
\* level_width - 1 is Wall, for every state built by new and after every
\* update or reset.
\* ------------------------------------------------------------------------
C4_BorderIsWall ==
    \A i \in DOMAIN tiles : OnBorder(i) => tiles[i] = Wall

\* ------------------------------------------------------------------------
\* Notions of the properties about one call
\* ------------------------------------------------------------------------
\* the heading an alive update(inp) is to move in
HeadingFor(inp) ==
    IF inp = None THEN snake_dir
    ELSE IF (snake_dir = "Up" /\ inp = "Down") \/ (snake_dir = "Down" /\ inp = "Up")
            \/ (snake_dir = "Left" /\ inp = "Right")
            \/ (snake_dir = "Right" /\ inp = "Left")
         THEN snake_dir
         ELSE inp

\* the cell an alive update(inp) is to move the head onto
NewHeadFor(inp) ==
    add_dir_to_index(level_width, level_height, snake_head_idx, HeadingFor(inp))

Max(a, b) == IF a >= b THEN a ELSE b

\* ------------------------------------------------------------------------
\* C5: in an update of an alive snake, a pending direction that is the
\* reverse of the heading leaves the heading unchanged, any other pending
\* direction becomes the heading in that same update, no pending direction
\* leaves the heading unchanged; a snake that moves moves in that heading.
\* ------------------------------------------------------------------------
C5_NoReverse ==
    [][\A inp \in OptDirection :
          (snake_alive /\ Update(inp)) =>
              /\ snake_dir' = HeadingFor(inp)
              /\ snake_alive' => snake_head_idx' = NewHeadFor(inp)]_vars

\* the pending direction was the reverse of the heading, and the snake moved
\* on in the heading it had
C5_Witness ==
    /\ RegularArena
    /\ op = "update"
    /\ branch = "move"
    /\ input # None
    /\ input = reverse(snake_dir)
    /\ tiles[snake_head_idx].prev = input

\* ------------------------------------------------------------------------
\* C6: an update of a dead snake, whatever its input, returns Ok and leaves
\* tiles, score, highscore, snake_head_idx, snake_tail_idx, snake_dir and
\* snake_alive unchanged.
\* ------------------------------------------------------------------------
C6_DeadUpdateNoOp ==
    [][\A inp \in OptDirection :
          (~snake_alive /\ Update(inp)) =>
              /\ ret' = "Ok"
              /\ UNCHANGED <<tiles, score, highscore, snake_head_idx,
                             snake_tail_idx, snake_dir, snake_alive>>]_vars

\* update was called on a snake that had died with a score
C6_Witness ==
    /\ RegularArena
    /\ ~snake_alive
    /\ op = "update"
    /\ branch = "dead"
    /\ score > 0

\* ------------------------------------------------------------------------
\* C7: an update of an alive snake whose new head cell is a Wall or a Snake
\* cell makes snake_alive false and leaves the grid, score, snake_head_idx
\* and snake_tail_idx as they were.
\* ------------------------------------------------------------------------
C7_DeathLeavesGrid ==
    [][\A inp \in OptDirection :
          (/\ snake_alive
           /\ Update(inp)
           /\ tiles[NewHeadFor(inp)].tag \in {"Wall", "Snake"}) =>
              /\ ~snake_alive'
              /\ UNCHANGED <<tiles, score, snake_head_idx, snake_tail_idx>>]_vars

\* the snake ran into itself
C7_Witness ==
    /\ RegularArena
    /\ ~snake_alive
    /\ branch = "collide"
    /\ tiles[add_dir_to_index(level_width, level_height, snake_head_idx,
                              snake_dir)].tag = "Snake"

\* ------------------------------------------------------------------------
\* C8: the update in which the snake dies sets highscore to the larger of
\* highscore and score; no other update and no reset changes highscore; so
\* highscore never decreases.
\* ------------------------------------------------------------------------
C8_HighscoreLatch ==
    [][/\ \A inp \in OptDirection :
              Update(inp) =>
                  highscore' = IF snake_alive /\ ~snake_alive'
                               THEN Max(highscore, score)
                               ELSE highscore
       /\ highscore' # highscore => ~Reset
       /\ highscore' >= highscore]_vars

\* the snake died with a score above the highscore it started with
C8_Witness ==
    /\ RegularArena
    /\ ~snake_alive
    /\ branch = "collide"
    /\ score = 10
    /\ highscore = 10

\* ------------------------------------------------------------------------
\* C9: an update of an alive snake adds exactly 10 to score when the new
\* head cell is Food and leaves score unchanged otherwise; score never
\* decreases while the snake is alive.
\* ------------------------------------------------------------------------
C9_ScoreMonotonic ==
    [][\A inp \in OptDirection :
          (snake_alive /\ Update(inp)) =>
              /\ score' = IF tiles[NewHeadFor(inp)].tag = "Food"
                          THEN score + 10
                          ELSE score
              /\ score' >= score]_vars

\* the update ate the food
C9_Witness ==
    /\ RegularArena
    /\ branch = "eat"
    /\ score = 10
    /\ Cardinality(SnakeCells) = 4

\* ------------------------------------------------------------------------
\* C10: snake_alive turns false only in an update whose new head cell is a
\* Wall or a Snake cell, and turns true only in a reset; after a reset the
\* state is a fresh game: the same level_width, level_height and highscore,
\* score 0, snake_alive, heading Right and the initial three-segment snake.
\* ------------------------------------------------------------------------
FreshAfterReset ==
    /\ level_width' = level_width
    /\ level_height' = level_height
    /\ highscore' = highscore
    /\ score' = 0
    /\ snake_alive'
    /\ snake_dir' = "Right"
    /\ snake_head_idx' = <<3, 5>>
    /\ snake_tail_idx' = <<3, 3>>
    /\ tiles'[<<3, 3>>] = Snake(None, "Right")
    /\ tiles'[<<3, 4>>] = Snake("Left", "Right")
    /\ tiles'[<<3, 5>>] = Snake("Left", None)
    /\ DOMAIN tiles' = DOMAIN tiles
    /\ \A i \in DOMAIN tiles' :
           i \notin {<<3, 3>>, <<3, 4>>, <<3, 5>>} =>
               tiles'[i].tag \in (IF OnBorder(i) THEN {"Wall"} ELSE {"Floor", "Food"})
    /\ Cardinality({i \in DOMAIN tiles' : tiles'[i].tag = "Food"}) = 1

C10_AliveDeadCycle ==
    [][/\ (snake_alive /\ ~snake_alive') =>
              \E inp \in OptDirection :
                  /\ Update(inp)
                  /\ tiles[NewHeadFor(inp)].tag \in {"Wall", "Snake"}
       /\ (~snake_alive /\ snake_alive') => op' = "reset"
       /\ op' = "reset" => FreshAfterReset]_vars

\* a reset after a game that raised the highscore
C10_Witness ==
    /\ RegularArena
    /\ op = "reset"
    /\ snake_alive
    /\ score = 0
    /\ highscore = 10

\* ------------------------------------------------------------------------
\* The fresh 10 x 10 game and its first update
\* ------------------------------------------------------------------------
ScenarioDims == <<10, 10>>

ScenarioInit ==
    /\ \E hs \in Highscores : Constructed(ScenarioDims[1], ScenarioDims[2], hs)
    /\ EngineOff

\* the first update call on the fresh game
FirstUpdate(inp) ==
    /\ op = "new"
    /\ Update(inp)
    /\ UNCHANGED evars

ScenarioNext == \E inp \in OptDirection : FirstUpdate(inp)

ScenarioSpec == ScenarioInit /\ [][ScenarioNext]_vars

\* what the glossary's plain step does to the fresh game: head on (3, 6),
\* (3, 3) Floor, (3, 4) the tail, score as before
ScenarioPlainStep ==
    /\ snake_head_idx' = <<3, 6>>
    /\ tiles'[<<3, 3>>] = Floor
    /\ tiles'[<<3, 4>>] = Snake(None, "Right")
    /\ snake_tail_idx' = <<3, 4>>
    /\ score' = score

\* C11 as stated: on the fresh 10 x 10 game update(None) moves the head to
\* (3, 6), turns (3, 3) into Floor, makes (3, 4) the tail Snake(None, Right)
\* and leaves score unchanged, whatever cell the first food was spawned on.
C11_FirstStepAnyFood ==
    [][(op = "new" /\ Update(None)) => ScenarioPlainStep]_vars

\* ------------------------------------------------------------------------
\* C11: on the fresh 10 x 10 game update(None) moves the head to (3, 6); if
\* the first food was spawned on any cell but (3, 6), (3, 3) becomes Floor,
\* (3, 4) becomes the tail Snake(None, Right) and score is unchanged; if the
\* food was spawned on (3, 6) the snake eats it: (3, 3) stays the tail
\* Snake(None, Right), (3, 4) stays Snake(Left, Right) and score grows by 10.
\* ------------------------------------------------------------------------
C11_FirstStep ==
    [][(op = "new" /\ Update(None)) =>
          /\ level_width = 10 /\ level_height = 10
          /\ snake_head_idx' = <<3, 6>>
          /\ tiles'[<<3, 6>>] = Snake("Left", None)
          /\ IF tiles[<<3, 6>>] = Food
             THEN /\ tiles'[<<3, 3>>] = Snake(None, "Right")
                  /\ tiles'[<<3, 4>>] = Snake("Left", "Right")
                  /\ snake_tail_idx' = <<3, 3>>
                  /\ score' = score + 10
             ELSE ScenarioPlainStep]_vars

\* the first food was on (3, 6) and the first update(None) ate it
C11_Witness ==
    /\ level_width = 10 /\ level_height = 10
    /\ op = "update" /\ input = None /\ branch = "eat"
    /\ snake_head_idx = <<3, 6>>
    /\ snake_tail_idx = <<3, 3>>
    /\ score = 10

\* ------------------------------------------------------------------------
\* C12: an update of an alive snake whose new head cell holds Food adds 10
\* to score, grows the set of Snake cells by exactly one, leaves the tail
\* cell and snake_tail_idx as they were, makes the eaten cell the head
\* Snake(reverse(heading), None), and leaves exactly one Food tile, on a
\* cell other than the eaten one that was Floor before the call.
\* ------------------------------------------------------------------------
C12_EatGrows ==
    [][(snake_alive /\ op' = "update" /\ tiles[NewHeadFor(input')] = Food) =>
          LET eaten == NewHeadFor(input')
          IN  /\ score' = score + 10
              /\ Cardinality(SnakeCells') = Cardinality(SnakeCells) + 1
              /\ SnakeCells' = SnakeCells \cup {eaten}
              /\ snake_tail_idx' = snake_tail_idx
              /\ tiles'[snake_tail_idx] = tiles[snake_tail_idx]
              /\ snake_head_idx' = eaten
              /\ tiles'[eaten] = Snake(reverse(HeadingFor(input')), None)
              /\ \E f \in DOMAIN tiles :
                     /\ FoodCells' = {f}
                     /\ f # eaten
                     /\ tiles[f] = Floor]_vars

\* the snake turned onto the food and ate it
C12_Witness ==
    /\ RegularArena
    /\ op = "update"
    /\ branch = "eat"
    /\ input \in {"Up", "Down"}
    /\ snake_dir = input
    /\ tiles[snake_head_idx] = Snake(reverse(input), None)
    /\ tiles[snake_tail_idx].tag = "Snake"
    /\ Cardinality(FoodCells) = 1

\* ------------------------------------------------------------------------
\* C13: every update returns Ok: no call ends in one of the three error
\* returns, and in every state with the snake alive the three lookups of the
\* next update find their link: the tail cell has a next link, the head cell
\* has a prev link, and the cell the tail's next link leads to has a next
\* link.
\* ------------------------------------------------------------------------
C13_UpdateOk ==
    /\ ret = "Ok"
    /\ branch \notin {"err_tail", "err_head", "err_new_tail"}
    /\ snake_alive =>
          /\ get_snake_next(tiles, snake_tail_idx) # Err
          /\ get_snake_prev(tiles, snake_head_idx) # Err
          /\ get_snake_next(tiles,
                 add_dir_to_index(level_width, level_height, snake_tail_idx,
                                  get_snake_next(tiles, snake_tail_idx))) # Err

\* the tail has been moved onto a cell that once was the head, after a turn
C13_Witness ==
    /\ RegularArena
    /\ op = "update"
    /\ branch = "move"
    /\ ret = "Ok"
    /\ snake_tail_idx \notin {<<3, 3>>, <<3, 4>>}
    /\ tiles[snake_tail_idx].next \in {"Up", "Down"}

\* ------------------------------------------------------------------------
\* C14: for every width and height with an interior of at least 2 by 2
\* inside the border (width >= 4, height >= 4), the state new returns has
\* the tail on (3, 3), the middle segment on (3, 4) and the head on (3, 5),
\* all three off the border, heading Right, the snake alive, score 0, every
\* border cell Wall and exactly one Food tile.
\* ------------------------------------------------------------------------
C14_NewPostcondition ==
    (op = "new" /\ level_width >= 4 /\ level_height >= 4) =>
        /\ snake_tail_idx = <<3, 3>>
        /\ snake_head_idx = <<3, 5>>
        /\ tiles[<<3, 3>>] = Snake(None, "Right")
        /\ tiles[<<3, 4>>] = Snake("Left", "Right")
        /\ tiles[<<3, 5>>] = Snake("Left", None)
        /\ \A i \in {<<3, 3>>, <<3, 4>>, <<3, 5>>} : ~OnBorder(i)
        /\ snake_dir = "Right"
        /\ snake_alive
        /\ score = 0
        /\ highscore \in Highscores
        /\ \A i \in DOMAIN tiles : OnBorder(i) => tiles[i] = Wall
        /\ Cardinality(FoodCells) = 1

\* ------------------------------------------------------------------------
\* C20: in every state score is 10 times the number of Snake cells beyond
\* the first three, and there are at least three Snake cells.
\* ------------------------------------------------------------------------
C20_ScoreCountsSegments ==
    /\ Cardinality(SnakeCells) >= 3
    /\ score = 10 * (Cardinality(SnakeCells) - 3)

\* a snake of four segments with score 10 that has moved on after eating
C20_Witness ==
    /\ RegularArena
    /\ op = "update"
    /\ branch = "move"
    /\ snake_alive
    /\ score = 10
    /\ Cardinality(SnakeCells) = 4
    /\ snake_tail_idx # <<3, 3>>

\* ------------------------------------------------------------------------
\* toggle_walls called on a game, fresh or after its first update
\* ------------------------------------------------------------------------
ToggleWalls ==
    /\ op' = "toggle_walls"
    /\ tiles' = toggle_walls(tiles, level_width, level_height)
    /\ UNCHANGED <<level_width, level_height, snake_head_idx, snake_tail_idx,
                   snake_dir, snake_alive, score, highscore,
                   input, ret, branch, food_over>>
    /\ UNCHANGED evars

ToggleNext ==
    \/ ToggleWalls
    \/ \E inp \in OptDirection : FirstUpdate(inp)

ToggleSpec == Init /\ [][ToggleNext]_vars

BorderCells == {i \in DOMAIN tiles : OnBorder(i)}

\* C18 as stated: toggle_walls is idempotent: a second call leaves the grid
\* the first call left, and a border that is all Wall is all Wall afterwards.
C18_ToggleIdempotent ==
    [][op' = "toggle_walls" =>
          /\ toggle_walls(tiles', level_width, level_height) = tiles'
          /\ (\A i \in BorderCells : tiles[i] = Wall)
                 => (\A i \in BorderCells : tiles'[i] = Wall)]_vars

\* ------------------------------------------------------------------------
\* C18: toggle_walls is an involution, not idempotent: a second call gives
\* back the grid the first call was made on; one call turns every Wall tile
\* of the border into Floor and every Floor tile of the border into Wall,
\* and leaves every other tile as it was.
\* ------------------------------------------------------------------------
C18_ToggleInvolution ==
    [][op' = "toggle_walls" =>
          /\ toggle_walls(tiles', level_width, level_height) = tiles
          /\ \A i \in DOMAIN tiles :
                 tiles'[i] = IF OnBorder(i) /\ tiles[i] = Wall THEN Floor
                             ELSE IF OnBorder(i) /\ tiles[i] = Floor THEN Wall
                             ELSE tiles[i]]_vars

\* toggle_walls has been called on a grid whose walls an earlier call had
\* taken away: the border is Wall again
C18_Witness ==
    /\ RegularArena
    /\ op = "toggle_walls"
    /\ branch # "none"
    /\ \A i \in BorderCells : tiles[i] = Wall

\* ------------------------------------------------------------------------
\* add_dir_to_index called on a fresh game with any in-bounds index and any
\* direction: input holds the arguments, ret the returned index
\* ------------------------------------------------------------------------
AddDirToIndex(index, dir) ==
    /\ op' = "add_dir_to_index"
    /\ input' = <<index, dir>>
    /\ ret' = add_dir_to_index(level_width, level_height, index, dir)
    /\ UNCHANGED <<game, branch, food_over>>
    /\ UNCHANGED evars

StepNext ==
    \E index \in Indices(level_width, level_height), dir \in Direction :
        AddDirToIndex(index, dir)

StepSpec == Init /\ [][StepNext]_vars

\* the neighbour of (y, x) in direction d on a torus of h rows, w columns
Neighbour(w, h, y, x, d) ==
    IF d = "Up" THEN <<IF y = 0 THEN h - 1 ELSE y - 1, x>>
    ELSE IF d = "Down" THEN <<IF y = h - 1 THEN 0 ELSE y + 1, x>>
    ELSE IF d = "Left" THEN <<y, IF x = 0 THEN w - 1 ELSE x - 1>>
    ELSE <<y, IF x = w - 1 THEN 0 ELSE x + 1>>

\* ------------------------------------------------------------------------
\* C19: for every in-bounds index and every direction add_dir_to_index
\* returns an in-bounds index, the neighbour on the torus (Up from row 0 is
\* row level_height - 1, Left from column 0 is column level_width - 1, and
\* the same at the far edges), and a step by the reverse direction from the
\* returned index returns the original index.
\* ------------------------------------------------------------------------
C19_StepWraps ==
    op = "add_dir_to_index" =>
        LET index == input[1]
            d == input[2]
        IN  /\ ret \in Indices(level_width, level_height)
            /\ ret = Neighbour(level_width, level_height, index[1], index[2], d)
            /\ add_dir_to_index(level_width, level_height, ret, reverse(d))
                   = index

\* a step Up from row 0 has returned the bottom row
C19_Witness ==
    /\ RegularArena
    /\ op = "add_dir_to_index"
    /\ input[2] = "Up"
    /\ input[1][1] = 0
    /\ ret[1] = level_height - 1

\* ------------------------------------------------------------------------
\* The rejection loop of spawn_food, one drawn index per step, in a game
\* played without a score cap until the snake dies or the loop cannot end:
\* branch = "spawning" while update is inside the loop of spawn_food
\* ------------------------------------------------------------------------
FillDims == <<7, 5>>

FillInit ==
    /\ Constructed(FillDims[1], FillDims[2], 0)
    /\ EngineOff

\* update up to the call of spawn_food
FillUpdate(inp) ==
    /\ branch # "spawning"
    /\ snake_alive
    /\ LET r == update(Self, inp)
       IN  /\ op' = "update"
           /\ input' = r.input
           /\ ret' = r.ret
           /\ branch' = IF r.spawn THEN "spawning" ELSE r.branch
           /\ Becomes(r.gs)
    /\ UNCHANGED food_over
    /\ UNCHANGED evars

\* one pass of the loop whose drawn index holds Floor: Food is written and
\* spawn_food returns
SpawnAccept_food(index) ==
    /\ branch = "spawning"
    /\ tiles[index] = Food
    /\ branch' = "eat"
    /\ food_over' = tiles[index]
    /\ tiles' = spawn_food(Self, index).tiles
    /\ UNCHANGED <<level_width, level_height, snake_head_idx, snake_tail_idx,
                   snake_dir, snake_alive, score, highscore, op, input, ret>>
    /\ UNCHANGED evars

SpawnAccept(index) ==
    /\ branch = "spawning"
    /\ SpawnAccepts(tiles, index)
    /\ branch' = "eat"
    /\ food_over' = tiles[index]
    /\ tiles' = spawn_food(Self, index).tiles
    /\ UNCHANGED <<level_width, level_height, snake_head_idx, snake_tail_idx,
                   snake_dir, snake_alive, score, highscore, op, input, ret>>
    /\ UNCHANGED evars

\* one pass of the loop whose drawn index holds another tile: nothing is
\* written and the loop goes round again
SpawnReject(index) ==
    /\ branch = "spawning"
    /\ ~SpawnAccepts(tiles, index)
    /\ UNCHANGED vars

SpawnPass ==
    \E index \in Indices(level_width, level_height) :
        SpawnAccept(index) \/ SpawnReject(index)

SpawnReturns ==
    \E index \in Indices(level_width, level_height) : SpawnAccept(index)

FillNext ==
    \/ \E inp \in OptDirection : FillUpdate(inp)
    \/ SpawnPass

FillSpec == FillInit /\ [][FillNext]_vars

\* the random draws are fair: an index that would end the loop is not
\* avoided for ever
FairFillSpec == FillSpec /\ WF_vars(SpawnReturns)

FloorCells == {i \in DOMAIN tiles : tiles[i] = Floor}

\* ------------------------------------------------------------------------
\* C15: while a Floor cell exists the loop of spawn_food ends, given fair
\* draws; once no Floor cell exists the loop never ends; and an eating
\* update that leaves no Floor cell, the snake filling the whole interior,
\* can be reached (the witness), so update can hang.
\* ------------------------------------------------------------------------
C15_SpawnTermination ==
    /\ (branch = "spawning" /\ FloorCells # {}) ~> (branch # "spawning")
    /\ [][(branch = "spawning" /\ FloorCells = {}) => branch' = "spawning"]_vars

\* update is inside spawn_food and the snake fills the whole interior
C15_Witness ==
    /\ RegularArena
    /\ op = "update"
    /\ branch = "spawning"
    /\ FloorCells = {}
    /\ \A i \in DOMAIN tiles : ~OnBorder(i) => tiles[i].tag = "Snake"

\* ------------------------------------------------------------------------
\* Notions of the properties about the engine
\* ------------------------------------------------------------------------
IsDirection(a) == a # None

\* the directions passed to update so far, in order
PassedDirections == SelectSeq(passed, IsDirection)

\* ------------------------------------------------------------------------
\* C16: the directions passed to update so far followed by the directions
\* still queued are the directions pressed, in the order pressed; the queue
\* grows only at its back, by the direction pressed; it shrinks only in a
\* tick, on a frame whose counter is a multiple of 10, by its oldest
\* direction, which is the argument of that one update call (the pending
\* direction an alive snake's update looks at); a tick with the queue empty
\* passes None.
\* ------------------------------------------------------------------------
C16_FifoInputs ==
    /\ [](PassedDirections \o inputs = pressed)
    /\ [][/\ pressed' # pressed =>
                 /\ Len(pressed') = Len(pressed) + 1
                 /\ inputs' = Append(inputs, pressed'[Len(pressed')])
                 /\ passed' = passed
          /\ (inputs' # inputs /\ pressed' = pressed) => passed' # passed
          /\ passed' # passed =>
                 /\ run = "running"
                 /\ framecounter % 10 = 0
                 /\ op' = "update"
                 /\ Len(passed') = Len(passed) + 1
                 /\ SubSeq(passed', 1, Len(passed)) = passed
                 /\ passed'[Len(passed')] =
                        IF inputs = <<>> THEN None ELSE Head(inputs)
                 /\ inputs' = IF inputs = <<>> THEN inputs ELSE Tail(inputs)
                 /\ snake_alive => input' = passed'[Len(passed')]
          /\ (run = "running" /\ run' = "running"
                  /\ framecounter' # framecounter /\ framecounter % 10 = 0)
                 => passed' # passed
          /\ (framecounter % 10 # 0) => passed' = passed]_vars

\* two different directions were pressed before a tick took the first; the
\* next tick took the second
C16_Witness ==
    /\ run = "running"
    /\ Len(pressed) = 2
    /\ pressed[1] # pressed[2]
    /\ passed = pressed
    /\ inputs = <<>>
    /\ framecounter = 11

\* ------------------------------------------------------------------------
\* C17: an engine whose load failed starts from GameState::new(40, 30, 0):
\* 40 by 30, highscore 0, score 0, alive, and it starts (running) all the
\* same; save is called once when run is left by a quit or escape event,
\* whether the save then succeeds or not, never while the loop runs and
\* never when run is left by an error of update, render or the fullscreen
\* switch; no step calls save twice and nothing happens after run is left.
\* ------------------------------------------------------------------------
C17_LoadDefaultSaveOnce ==
    /\ [](/\ (load = "failed" /\ op = "new" /\ framecounter = 0) =>
                /\ level_width = 40 /\ level_height = 30
                /\ highscore = 0 /\ score = 0 /\ snake_alive
                /\ snake_head_idx = <<3, 5>> /\ snake_tail_idx = <<3, 3>>
                /\ snake_dir = "Right"
                /\ Cardinality(FoodCells) = 1
                /\ Cardinality(SnakeCells) = 3
          /\ run \in {"ok", "err_save"} => saves = 1
          /\ run \in {"running", "err_init", "err_update", "err_render",
                      "err_fullscreen"} => saves = 0)
    /\ [][/\ saves' # saves =>
                 /\ run = "running"
                 /\ run' \in {"ok", "err_save"}
                 /\ saves' = saves + 1
                 /\ UNCHANGED game
          /\ run # "running" => UNCHANGED vars]_vars

\* the load failed, the default game was played and the run was left by a
\* quit event, the state saved
C17_Witness ==
    /\ load = "failed"
    /\ level_width = 40
    /\ op = "update"
    /\ framecounter > 0
    /\ run = "ok"
    /\ saves = 1

\* ------------------------------------------------------------------------
\* C21: an update of an alive snake whose new head cell is the cell that
\* holds the tail kills the snake: snake_alive becomes false and the grid,
\* the head and the tail stay as they were, although a plain move would
\* have taken the tail off that cell in the same call.
\* ------------------------------------------------------------------------
C21_TailCellKills ==
    [][(/\ snake_alive
        /\ op' = "update"
        /\ NewHeadFor(input') = snake_tail_idx) =>
           /\ ~snake_alive'
           /\ branch' = "collide"
           /\ UNCHANGED <<tiles, snake_head_idx, snake_tail_idx, score>>]_vars

\* the snake died stepping onto the cell of its own tail
C21_Witness ==
    /\ RegularArena
    /\ op = "update"
    /\ ~snake_alive
    /\ branch = "collide"
    /\ add_dir_to_index(level_width, level_height, snake_head_idx, snake_dir)
           = snake_tail_idx
    /\ tiles[snake_tail_idx].tag = "Snake"

\* the step of add_dir_to_index from index in direction dir takes the
\* modulo wrap: it leaves the grid on one side and comes back on the other
Wraps(index, dir) ==
    \/ dir = "Up" /\ index[1] = 0
    \/ dir = "Down" /\ index[1] = level_height - 1
    \/ dir = "Left" /\ index[2] = 0
    \/ dir = "Right" /\ index[2] = level_width - 1

\* ------------------------------------------------------------------------
\* C22: in every state snake_head_idx, snake_tail_idx, every Snake cell and
\* every Food cell are off the border (not on row 0, row level_height - 1,
\* column 0 or column level_width - 1), so that neither the step of the
\* head in the heading nor the step of the tail along its next link takes
\* the modulo wrap of add_dir_to_index.
\* ------------------------------------------------------------------------
C22_StrictlyInterior ==
    /\ ~OnBorder(snake_head_idx)
    /\ ~OnBorder(snake_tail_idx)
    /\ \A i \in SnakeCells \cup FoodCells : ~OnBorder(i)
    /\ \A d \in Direction : ~Wraps(snake_head_idx, d)
    /\ get_snake_next(tiles, snake_tail_idx) # Err
           => ~Wraps(snake_tail_idx, get_snake_next(tiles, snake_tail_idx))

\* the same restricted to the arenas whose snake starts off the border
C22_InteriorWhenRegular == RegularArena => C22_StrictlyInterior

====
